---- MODULE Spec2Model ----
(***************************************************************************)
(* The retrieval-augmented chat turn of src/sample_code.py (the same code  *)
(* is repeated in src/dinov3.py, lines 286-364).                           *)
(*                                                                         *)
(* A text (a Python str) is a finite sequence of atoms; "" is <<>>, string *)
(* concatenation is \o, and a str is truthy iff it is not <<>>.            *)
(* st.chat_input returning None (nothing submitted) is the falsy <<>>.     *)
(* A timestamp (an ISO-8601 string of a naive datetime) is the clock       *)
(* reading it formats; its string order is the order of the readings.      *)
(***************************************************************************)
EXTENDS Integers, Sequences, FiniteSets, TLC

VARIABLES
    pc,             \* position of the script: idle, query, assemble, post, stream, save
    collection,     \* get_chroma_collection(): "ok" or "None"
    store,          \* records of the chat_history collection, in insertion order
    messages,       \* st.session_state.messages
    prompt,         \* prompt of the running turn
    results,        \* value of collection.query(...), NoResults when not bound
    zipped_results, \* the sorted (document, metadata) pairs
    api_messages,   \* the message list of the payload
    payload,        \* the request handed to requests.post, NoPayload before it
    lines,          \* lines of the response body iterated so far in this turn
    chunks,         \* what stream_response has yielded to st.write_stream
    gen_response,   \* full_response local to stream_response
    stream_end,     \* how the generator ended: none, done, closed, or the exception
    full_response,  \* value of st.write_stream(...)
    last_add,       \* keyword arguments of the turn's collection.add call
    add_result,     \* outcome of that call: none, ok, or the exception caught
    st_errors,      \* st.error boxes rendered by the current script run
    calls,          \* number of query / post / add requests issued so far
    clock,          \* datetime.datetime.now()
    handed_ids,     \* ids of all collection.add calls on the collection, in order
    budget,         \* events the environment may still produce: an input,
                    \* a stream line, a failure, a tick of the clock
    main_pc,        \* position of main() of src/extract_and_ollama.py
    combined_len,   \* len(combined_text)
    announced,      \* the chunk count printed at line 110
    offset,         \* the loop variable i of line 113
    summaries       \* the summaries list: chunk number and chunk length of each

vars == << pc, collection, store, messages, prompt, results, zipped_results,
           api_messages, payload, lines, chunks, gen_response, stream_end,
           full_response, last_add, add_result, st_errors, calls, clock,
           handed_ids, budget, main_pc, combined_len, announced, offset,
           summaries >>

chat_vars == << pc, collection, store, messages, prompt, results,
                zipped_results, api_messages, payload, lines, chunks,
                gen_response, stream_end, full_response, last_add,
                add_result, st_errors, calls, clock, handed_ids, budget >>

main_vars == << main_pc, combined_len, announced, offset, summaries >>

(***************************************************************************)
(* Bounds of the model.                                                    *)
(***************************************************************************)
MaxEvents == 4
RetrievalEvents == 2
MaxStore == 6

(***************************************************************************)
(* Program constants.                                                      *)
(***************************************************************************)
N_RESULTS == 5
ONE_SECOND == 1

OLLAMA_URL == "http://localhost:11434/api/chat"
MODEL_NAME == "mario"

\* The two synthetic messages of stream_response's except clauses.
CONNECT_MSG == << "Mamma mia! Could not connect to the server" >>
ERROR_MSG == << "Mamma mia! An error occurred" >>

(***************************************************************************)
(* Texts and messages.                                                     *)
(***************************************************************************)
Min(a, b) == IF a <= b THEN a ELSE b

\* bool(s) of a str (or of None), as tested by "if prompt := st.chat_input(...)".
Truthy(s) == s # <<>>

\* The inputs st.chat_input can hand to the script: nothing or "", a
\* whitespace-only text, and an ordinary text.
Prompts == { <<>>, << " " >>, << "hello" >> }

\* str.strip(): the text without its leading and trailing whitespace atoms.
RECURSIVE Strip(_)
Strip(s) ==
    IF s = <<>> THEN <<>>
    ELSE IF Head(s) = " " THEN Strip(Tail(s))
    ELSE IF s[Len(s)] = " " THEN Strip(SubSeq(s, 1, Len(s) - 1))
    ELSE s

Msg(role, content) == [role |-> role, content |-> content]

(***************************************************************************)
(* The vector store, as far as the script sees it.                         *)
(***************************************************************************)
DocNames == << "m1", "m2", "m3", "m4", "m5", "m6", "m7", "m8" >>

\* A record written by an earlier session: roles alternate and the
\* timestamps 1, 1, 2, 2, ... tie in pairs.
StoredRecord(i) ==
    [ id |-> << "msg", (i + 1) \div 2, IF i % 2 = 1 THEN "user" ELSE "asst" >>,
      document |-> << DocNames[i] >>,
      metadata |-> [ role |-> IF i % 2 = 1 THEN "user" ELSE "assistant",
                     timestamp |-> (i + 1) \div 2 ] ]

Preloaded(k) == [ i \in 1..k |-> StoredRecord(i) ]

\* Records of other writers whose metadata lacks a key the script reads.
NoTimestampRecord ==
    [ id |-> << "ext", 1, "user" >>, document |-> << "n1" >>,
      metadata |-> [ role |-> "user" ] ]
NoRoleRecord ==
    [ id |-> << "ext", 2, "user" >>, document |-> << "n2" >>,
      metadata |-> [ timestamp |-> 2 ] ]

NoResults == [ documents |-> <<>>, metadatas |-> <<>> ]

\* The query without its n_results limit: every record comes back.
QueryEverything(st, n) ==
    { [ documents |-> << [ i \in 1..Len(st) |-> st[i].document ] >>,
        metadatas |-> << [ i \in 1..Len(st) |-> st[i].metadata ] >> ] }

\* collection.query(query_texts=[prompt], n_results=n): the n nearest records
\* (all of them when the collection holds fewer), in an order the script does
\* not control.  documents and metadatas hold one inner list per query text.
QueryResults(st, n) ==
    LET k == Min(n, Len(st))
        picks == { f \in [1..k -> 1..Len(st)] :
                     \A i, j \in 1..k : i # j => f[i] # f[j] }
    IN  { [ documents |-> << [ i \in 1..k |-> st[f[i]].document ] >>,
            metadatas |-> << [ i \in 1..k |-> st[f[i]].metadata ] >> ] :
          f \in picks }

(***************************************************************************)
(* Context assembly, lines 109-129.                                        *)
(***************************************************************************)
\* list(zip(a, b))
Zip(a, b) == [ i \in 1..Min(Len(a), Len(b)) |-> << a[i], b[i] >> ]

\* key=lambda x: x[1].get('timestamp', 0): the timestamp string, or the int 0.
SortKey(x) ==
    IF "timestamp" \in DOMAIN x[2]
    THEN [ type |-> "str", val |-> x[2].timestamp ]
    ELSE [ type |-> "int", val |-> 0 ]

\* Comparing a str key with an int key raises TypeError; any sort of two or
\* more elements with keys of both types makes such a comparison.
SortRaises(z) ==
    \E i, j \in 1..Len(z) : SortKey(z[i]).type # SortKey(z[j]).type

KeyLess(x, y) == SortKey(x).val < SortKey(y).val

\* An insertion that puts x in front of the elements with an equal key.
InsertBeforeEqualKeys(s, x) ==
    LET k == Cardinality({ i \in 1..Len(s) : KeyLess(s[i], x) })
    IN  SubSeq(s, 1, k) \o << x >> \o SubSeq(s, k + 1, Len(s))

\* list.sort is stable: x goes behind every element whose key is not greater.
InsertByKey(s, x) ==
    LET k == Cardinality({ i \in 1..Len(s) : ~KeyLess(x, s[i]) })
    IN  SubSeq(s, 1, k) \o << x >> \o SubSeq(s, k + 1, Len(s))

\* The sort left out: the pairs stay in the order the store returned them.
Unsorted(z) == z

RECURSIVE SortByTimestamp(_)
SortByTimestamp(z) ==
    IF z = <<>> THEN <<>>
    ELSE InsertByKey(SortByTimestamp(SubSeq(z, 1, Len(z) - 1)), z[Len(z)])

\* meta['role'] raises KeyError when the key is absent.
RoleRaises(z) == \E i \in 1..Len(z) : "role" \notin DOMAIN z[i][2]

\* Lines 126-129: the except clause.
FallbackContext(p) == << Msg("user", p) >>

\* The block with the current prompt put in front of the retrieved messages.
TryAssemblePromptFirst(res, p) ==
    IF res.documents # <<>>
    THEN LET z == Zip(res.documents[1], res.metadatas[1])
             s == SortByTimestamp(z)
         IN  IF SortRaises(z)
             THEN [ raised |-> "TypeError", zipped |-> z, api |-> <<>> ]
             ELSE IF RoleRaises(s)
             THEN [ raised |-> "KeyError", zipped |-> s, api |-> <<>> ]
             ELSE [ raised |-> "none", zipped |-> s,
                    api |-> << Msg("user", p) >>
                            \o [ i \in 1..Len(s) |-> Msg(s[i][2].role, s[i][1]) ] ]
    ELSE [ raised |-> "none", zipped |-> <<>>, api |-> << Msg("user", p) >> ]

\* Lines 109-124, given the query's value: the sorted pairs and the context,
\* or the exception the block raises.
TryAssemble(res, p) ==
    IF res.documents # <<>>
    THEN LET z == Zip(res.documents[1], res.metadatas[1])
             s == SortByTimestamp(z)
         IN  IF SortRaises(z)
             THEN [ raised |-> "TypeError", zipped |-> z, api |-> <<>> ]
             ELSE IF RoleRaises(s)
             THEN [ raised |-> "KeyError", zipped |-> s, api |-> <<>> ]
             ELSE [ raised |-> "none", zipped |-> s,
                    api |-> [ i \in 1..Len(s) |-> Msg(s[i][2].role, s[i][1]) ]
                            \o << Msg("user", p) >> ]
    ELSE [ raised |-> "none", zipped |-> <<>>, api |-> << Msg("user", p) >> ]

(***************************************************************************)
(* The inference stream, lines 57-84, and st.write_stream, line 143.       *)
(***************************************************************************)
Tokens == { << "Hi" >>, << " there" >>, <<>> }

\* A line of response.iter_lines(): an empty keep-alive line, a JSON object
\* with message.content (and done), bytes that are not JSON, or a JSON object
\* without message.content.
StreamLines ==
    { [ kind |-> "empty" ], [ kind |-> "garbage" ], [ kind |-> "nocontent" ] }
    \cup { [ kind |-> "json", content |-> t, done |-> d ] :
           t \in Tokens, d \in BOOLEAN }

WellFormed(line) == line.kind = "json"

\* What requests.post / raise_for_status can do, line 64-65.
PostOutcomes == { "ok", "ConnectionError", "HTTPError" }

\* Exceptions iter_lines can raise while the body is read.
StreamErrors == { "ConnectionError", "ChunkedEncodingError" }

\* The except clauses swallowing the exception: nothing visible is yielded.
ExceptChunkSilent(exc) == <<>>

\* Lines 78-81: the chunk the except clauses yield for an exception.
ExceptChunk(exc) ==
    IF exc = "ConnectionError" THEN CONNECT_MSG ELSE ERROR_MSG

\* The loop without its break: a done line does not stop the iteration.
ProcessLineNoBreak(line, acc) ==
    IF line.kind = "empty"
    THEN [ raised |-> "none", acc |-> acc, yielded |-> <<>>, stop |-> FALSE ]
    ELSE IF line.kind = "garbage"
    THEN [ raised |-> "JSONDecodeError", acc |-> acc, yielded |-> <<>>,
           stop |-> TRUE ]
    ELSE IF line.kind = "nocontent"
    THEN [ raised |-> "KeyError", acc |-> acc, yielded |-> <<>>, stop |-> TRUE ]
    ELSE [ raised |-> "none", acc |-> acc \o line.content,
           yielded |-> << line.content >>, stop |-> FALSE ]

\* The loop with a try/except around the decoding: a malformed line is
\* passed over like an empty one.
ProcessLineSkipsMalformed(line, acc) ==
    IF line.kind \in { "empty", "garbage", "nocontent" }
    THEN [ raised |-> "none", acc |-> acc, yielded |-> <<>>, stop |-> FALSE ]
    ELSE [ raised |-> "none", acc |-> acc \o line.content,
           yielded |-> << line.content >>, stop |-> line.done ]

\* Lines 68-76, one iteration of the for loop: the exception raised, or the
\* new accumulator, the chunks yielded and whether the loop breaks.
ProcessLine(line, acc) ==
    IF line.kind = "empty"
    THEN [ raised |-> "none", acc |-> acc, yielded |-> <<>>, stop |-> FALSE ]
    ELSE IF line.kind = "garbage"
    THEN [ raised |-> "JSONDecodeError", acc |-> acc, yielded |-> <<>>,
           stop |-> TRUE ]
    ELSE IF line.kind = "nocontent"
    THEN [ raised |-> "KeyError", acc |-> acc, yielded |-> <<>>, stop |-> TRUE ]
    ELSE [ raised |-> "none", acc |-> acc \o line.content,
           yielded |-> << line.content >>, stop |-> line.done ]

\* st.write_stream: the written text, i.e. the str chunks joined in order
\* (an empty chunk is skipped); the generator's return value is not used.
RECURSIVE WriteStream(_)
WriteStream(cs) ==
    IF cs = <<>> THEN <<>>
    ELSE IF Head(cs) = <<>> THEN WriteStream(Tail(cs))
    ELSE Head(cs) \o WriteStream(Tail(cs))

(***************************************************************************)
(* Persistence, lines 148-164.                                             *)
(***************************************************************************)
\* Parameters of chromadb's Collection.add.
ADD_PARAMETERS ==
    { "ids", "embeddings", "metadatas", "documents", "images", "uris" }

NoAdd == [ called |-> FALSE ]
NoPayload == [ sent |-> FALSE ]

\* f"msg_{ts}_user" and f"msg_{ts}_asst"
MsgId(ts, suffix) == << "msg", ts, suffix >>

\* The assistant timestamp taken from the reading as it is.
AsstTimestampNoOffset(now) == now

\* Line 153: (datetime.datetime.now() + datetime.timedelta(seconds=1))
AsstTimestamp(now) == now + ONE_SECOND

\* Lines 155-162: the keyword arguments of the collection.add call.
AddArguments(p, resp, user_ts, asst_ts) ==
    [ called |-> TRUE,
      documents |-> << p, resp >>,
      metadatos |-> << [ role |-> "user", timestamp |-> user_ts ],
                       [ role |-> "assistant", timestamp |-> asst_ts ] >>,
      ids |-> << MsgId(user_ts, "user"), MsgId(asst_ts, "asst") >> ]

Keywords(args) == DOMAIN args \ { "called" }

\* What the call can do: an unknown keyword raises TypeError before anything
\* is written; otherwise the store writes or reports a failure of its own.
AddOutcomes(args) ==
    IF Keywords(args) \subseteq ADD_PARAMETERS
    THEN { "ok", "StoreError" }
    ELSE { "TypeError" }

\* The collection after a successful add.
StoreAfterAdd(st, args) ==
    st \o [ i \in 1..Len(args.ids) |->
              [ id |-> args.ids[i], document |-> args.documents[i],
                metadata |-> args.metadatas[i] ] ]

\* The append moved into the try block, behind the add call.
SessionAfterSaveOnSuccess(msgs, resp, outcome) ==
    IF outcome = "ok" THEN Append(msgs, Msg("assistant", resp)) ELSE msgs

\* Line 148 with the try block of lines 151-164: the session list after the
\* step; the append precedes the try block.
SessionAfterSave(msgs, resp, outcome) == Append(msgs, Msg("assistant", resp))

\* Line 163: "except Exception" catches what the block raises.
SaveCatches(outcome) == TRUE

\* An except clause that names the store's own error only.
QueryCatchesStoreErrorOnly(exc) == exc = "QueryError"

\* Line 126: "except Exception" around the query block.
QueryCatches(exc) == TRUE

\* Line 89: the walrus guard of the turn.
AcceptsPrompt(p) == Truthy(p)

(***************************************************************************)
(* Initial states: the script has run once with no input.  The collection  *)
(* is persistent, so what it holds when the session starts is an input.    *)
(***************************************************************************)
LatestTimestamp(st) ==
    LET ts == { st[i].metadata.timestamp :
                i \in { j \in 1..Len(st) : "timestamp" \in DOMAIN st[j].metadata } }
    IN  IF ts = {} THEN 0 ELSE CHOOSE m \in ts : \A t \in ts : t <= m

\* Lines 41-46 and the names a script run binds.
InitSession ==
    /\ pc = "idle"
    /\ messages = <<>>
    /\ prompt = <<>>
    /\ results = NoResults
    /\ zipped_results = <<>>
    /\ api_messages = <<>>
    /\ payload = NoPayload
    /\ lines = <<>>
    /\ chunks = <<>>
    /\ gen_response = <<>>
    /\ stream_end = "none"
    /\ full_response = <<>>
    /\ last_add = NoAdd
    /\ add_result = "none"
    /\ st_errors = <<>>
    /\ calls = [ query |-> 0, post |-> 0, add |-> 0 ]
    /\ clock = LatestTimestamp(store)
    /\ handed_ids = <<>>

\* The batch summarizer is a separate program: it does not run in a chat
\* session.
MainNotRunning ==
    /\ main_pc = "off"
    /\ combined_len = 0
    /\ announced = 0
    /\ offset = 0
    /\ summaries = <<>>

\* A session over a cold or a small collection, or without a collection
\* (get_chroma_collection returned None, lines 34-36).
SessionStores == { <<>>, Preloaded(2) }

Init ==
    /\ \/ collection = "None" /\ store = <<>>
       \/ collection = "ok" /\ store \in SessionStores
    /\ budget = MaxEvents
    /\ InitSession
    /\ MainNotRunning

\* A short session over a cold collection, over one that holds more records
\* than the query asks for, over records with pairwise distinct timestamps,
\* or over records whose metadata lacks a key.
RetrievalStores ==
    { <<>>, Preloaded(MaxStore),
      << StoredRecord(1), StoredRecord(4), StoredRecord(5) >>,
      << NoTimestampRecord >>,
      << NoTimestampRecord, StoredRecord(1) >>,
      << StoredRecord(2), NoRoleRecord, StoredRecord(1) >> }

InitRetrieval ==
    /\ \/ collection = "None" /\ store = <<>>
       \/ collection = "ok" /\ store \in RetrievalStores
    /\ budget = RetrievalEvents
    /\ InitSession
    /\ MainNotRunning

(***************************************************************************)
(* Actions.                                                                *)
(***************************************************************************)
\* A script run starts with a fresh namespace.
FreshRun ==
    /\ results' = NoResults
    /\ zipped_results' = <<>>
    /\ api_messages' = <<>>
    /\ payload' = NoPayload
    /\ lines' = <<>>
    /\ chunks' = <<>>
    /\ gen_response' = <<>>
    /\ stream_end' = "none"
    /\ full_response' = <<>>
    /\ last_add' = NoAdd
    /\ add_result' = "none"
    /\ st_errors' = <<>>

\* The input box taking a prompt while the response is still streaming.
WaitingOrStreaming == pc \in { "idle", "crashed", "stream" }

\* Line 89 is reached by a script run only: the box hands over an input
\* when no turn is running.
Waiting == pc \in { "idle", "crashed" }

\* Lines 89-100: chat_input returns p and the guard lets the turn start.
SubmitPrompt(p) ==
    /\ UNCHANGED << handed_ids, main_vars >>
    /\ Waiting
    /\ budget > 0
    /\ AcceptsPrompt(p)
    /\ prompt' = p
    /\ messages' = Append(messages, Msg("user", p))
    /\ FreshRun
    /\ pc' = "query"
    /\ budget' = budget - 1
    /\ UNCHANGED << collection, store, calls, clock >>

\* Line 89: chat_input returns p and the guard skips the turn; the run ends.
SkipTurn(p) ==
    /\ UNCHANGED << handed_ids, main_vars >>
    /\ Waiting
    /\ budget > 0
    /\ ~AcceptsPrompt(p)
    /\ prompt' = p
    /\ FreshRun
    /\ pc' = "idle"
    /\ budget' = budget - 1
    /\ UNCHANGED << collection, store, messages, calls, clock >>

\* Lines 126-129 for an exception of the try block of lines 101-124.
QueryExcept(exc) ==
    IF QueryCatches(exc)
    THEN /\ api_messages' = FallbackContext(prompt)
         /\ st_errors' = Append(st_errors, "query")
         /\ pc' = "post"
    ELSE /\ api_messages' = api_messages
         /\ st_errors' = st_errors
         /\ pc' = "crashed"

\* Lines 101-106: the query.  collection.query on None raises AttributeError
\* before any request; otherwise the store answers or raises.
QueryMemory ==
    /\ UNCHANGED << handed_ids, main_vars >>
    /\ pc = "query"
    /\ IF collection = "None"
       THEN /\ QueryExcept("AttributeError")
            /\ UNCHANGED << results, calls, budget >>
       ELSE /\ calls' = [ calls EXCEPT !.query = @ + 1 ]
            /\ \/ /\ budget > 0
                  /\ budget' = budget - 1
                  /\ QueryExcept("QueryError")
                  /\ UNCHANGED results
               \/ /\ results' \in QueryResults(store, N_RESULTS)
                  /\ pc' = "assemble"
                  /\ UNCHANGED << api_messages, st_errors, budget >>
    /\ UNCHANGED << collection, store, messages, prompt, zipped_results,
                    payload, lines, chunks, gen_response, stream_end,
                    full_response, last_add, add_result, clock >>

\* Lines 109-129: sort the results and build the context.
AssembleContext ==
    /\ UNCHANGED << handed_ids, main_vars >>
    /\ pc = "assemble"
    /\ LET r == TryAssemble(results, prompt)
       IN  /\ zipped_results' = r.zipped
           /\ IF r.raised = "none"
              THEN /\ api_messages' = r.api
                   /\ pc' = "post"
                   /\ UNCHANGED st_errors
              ELSE QueryExcept(r.raised)
    /\ UNCHANGED << collection, store, messages, prompt, results, payload,
                    lines, chunks, gen_response, stream_end, full_response,
                    last_add, add_result, calls, clock, budget >>

\* The turn given up after a failed stream: no session entry, no store write.
EndStreamSkipsSaveOnFailure(cs, how) ==
    /\ chunks' = cs
    /\ stream_end' = how
    /\ full_response' = WriteStream(cs)
    /\ pc' = IF how \in { "done", "closed" } THEN "save" ELSE "idle"

\* The generator is exhausted: st.write_stream returns, line 143.
EndStream(cs, how) ==
    /\ chunks' = cs
    /\ stream_end' = how
    /\ full_response' = WriteStream(cs)
    /\ pc' = "save"

\* Lines 134-138 and 62-65: the payload is posted.  results is not read
\* after this point.
SendRequest ==
    /\ UNCHANGED << handed_ids, main_vars >>
    /\ pc = "post"
    /\ payload' = [ sent |-> TRUE, model |-> MODEL_NAME,
                    messages |-> api_messages, stream |-> TRUE ]
    /\ calls' = [ calls EXCEPT !.post = @ + 1 ]
    /\ results' = NoResults
    /\ \E out \in PostOutcomes :
          IF out = "ok"
          THEN /\ pc' = "stream"
               /\ UNCHANGED << chunks, stream_end, full_response, budget >>
          ELSE /\ budget > 0
               /\ budget' = budget - 1
               /\ EndStream(<< ExceptChunk(out) >>, out)
    /\ UNCHANGED << collection, store, messages, prompt, zipped_results,
                    api_messages, lines, gen_response, last_add, add_result,
                    st_errors, clock >>

\* Lines 67-81: iter_lines hands over the next line.
ReceiveLine(line) ==
    /\ UNCHANGED << handed_ids, main_vars >>
    /\ pc = "stream"
    /\ budget > 0
    /\ budget' = budget - 1
    /\ lines' = Append(lines, line)
    /\ LET r == ProcessLine(line, gen_response)
       IN  /\ gen_response' = r.acc
           /\ IF r.raised # "none"
              THEN EndStream(Append(chunks, ExceptChunk(r.raised)), r.raised)
              ELSE IF r.stop
              THEN EndStream(chunks \o r.yielded, "done")
              ELSE /\ chunks' = chunks \o r.yielded
                   /\ UNCHANGED << stream_end, full_response, pc >>
    /\ UNCHANGED << collection, store, messages, prompt, results,
                    zipped_results, api_messages, payload, last_add,
                    add_result, st_errors, calls, clock >>

\* Line 67: the body ends without a done line.
StreamClosed ==
    /\ UNCHANGED << handed_ids, main_vars >>
    /\ pc = "stream"
    /\ EndStream(chunks, "closed")
    /\ UNCHANGED << collection, store, messages, prompt, results,
                    zipped_results, api_messages, payload, lines,
                    gen_response, last_add, add_result, st_errors, calls,
                    clock, budget >>

\* Lines 67, 78-81: reading the body raises.
StreamFails(exc) ==
    /\ UNCHANGED << handed_ids, main_vars >>
    /\ pc = "stream"
    /\ budget > 0
    /\ budget' = budget - 1
    /\ EndStream(Append(chunks, ExceptChunk(exc)), exc)
    /\ UNCHANGED << collection, store, messages, prompt, results,
                    zipped_results, api_messages, payload, lines,
                    gen_response, last_add, add_result, st_errors, calls,
                    clock >>

\* Lines 148-164: the session entry and the store write.  The two readings
\* of the clock are t1 <= t2.  When the run ends the page keeps the session
\* list, the response text and the error boxes; the names of the request
\* and of the stream are gone.
SaveTurn ==
    /\ UNCHANGED main_vars
    /\ pc = "save"
    /\ \E d1 \in 0..budget : \E d2 \in 0..(budget - d1) :
          LET user_ts == clock + d1
              asst_ts == AsstTimestamp(clock + d1 + d2)
              args == AddArguments(prompt, full_response, user_ts, asst_ts)
          IN  /\ clock' = clock + d1 + d2
              /\ \E outcome \in IF collection = "None"
                                THEN { "AttributeError" }
                                ELSE AddOutcomes(args) :
                    /\ outcome = "StoreError" => budget > d1 + d2
                    /\ budget' = budget - d1 - d2
                                  - (IF outcome = "StoreError" THEN 1 ELSE 0)
                    /\ messages' = SessionAfterSave(messages, full_response, outcome)
                    /\ add_result' = outcome
                    /\ IF collection = "None"
                       THEN UNCHANGED << last_add, calls, handed_ids >>
                       ELSE /\ last_add' = args
                            /\ calls' = [ calls EXCEPT !.add = @ + 1 ]
                            /\ handed_ids' = handed_ids \o args.ids
                    /\ store' = IF outcome = "ok"
                                THEN StoreAfterAdd(store, args)
                                ELSE store
                    /\ st_errors' = IF outcome = "ok"
                                    THEN st_errors
                                    ELSE Append(st_errors, "save")
                    /\ pc' = IF outcome = "ok" \/ SaveCatches(outcome)
                             THEN "idle"
                             ELSE "crashed"
    /\ lines' = <<>>
    /\ chunks' = <<>>
    /\ gen_response' = <<>>
    /\ zipped_results' = <<>>
    /\ api_messages' = <<>>
    /\ payload' = NoPayload
    /\ UNCHANGED << collection, prompt, results, stream_end, full_response >>

\* Lines 151-164 run by another session of the app.  get_chroma_collection
\* is cached (line 24): every session hands its records to the same
\* collection, and every session reads the same clock.
OtherSessionSave ==
    /\ UNCHANGED main_vars
    /\ collection = "ok"
    /\ budget > 0
    /\ \E p \in { q \in Prompts : AcceptsPrompt(q) } : \E resp \in Tokens :
       \E d1 \in 0..(budget - 1) : \E d2 \in 0..(budget - 1 - d1) :
          LET user_ts == clock + d1
              asst_ts == AsstTimestamp(clock + d1 + d2)
              args == AddArguments(p, resp, user_ts, asst_ts)
          IN  /\ clock' = clock + d1 + d2
              /\ budget' = budget - 1 - d1 - d2
              /\ handed_ids' = handed_ids \o args.ids
              /\ \E outcome \in AddOutcomes(args) :
                    store' = IF outcome = "ok"
                             THEN StoreAfterAdd(store, args)
                             ELSE store
    /\ UNCHANGED << pc, collection, messages, prompt, results, zipped_results,
                    api_messages, payload, lines, chunks, gen_response,
                    stream_end, full_response, last_add, add_result,
                    st_errors, calls >>

Next ==
    \/ \E p \in Prompts : SubmitPrompt(p)
    \/ \E p \in Prompts : SkipTurn(p)
    \/ QueryMemory
    \/ AssembleContext
    \/ SendRequest
    \/ \E line \in StreamLines : ReceiveLine(line)
    \/ StreamClosed
    \/ \E exc \in StreamErrors : StreamFails(exc)
    \/ SaveTurn
    \/ OtherSessionSave

Spec == Init /\ [][Next]_vars

SpecRetrieval == InitRetrieval /\ [][Next]_vars

\* The steps the script takes by itself, once the call it waits for has
\* returned, are taken.  Nothing makes the endpoint send a line, close the
\* body or fail: requests.post is given no timeout (line 64), so reading
\* the body waits for as long as the endpoint keeps the connection open.
SpecLive ==
    /\ Init
    /\ [][Next]_vars
    /\ WF_vars(QueryMemory)
    /\ WF_vars(AssembleContext)
    /\ WF_vars(SendRequest)
    /\ WF_vars(SaveTurn)

(***************************************************************************)
(* The batch summarizer: main() of src/extract_and_ollama.py.  A text is   *)
(* known here by its length; the chat session takes no step.               *)
(***************************************************************************)
CHUNK_SIZE == 20000
MaxChunks == 2

\* Line 66: the header put in front of a file's text, without the file name.
HEADER_LEN == 22

\* Lines 65-69: the combined text is empty, or holds at least one header
\* with a file name such as "a.txt" and one character of text.
TextLengths == { 0 } \cup ((HEADER_LEN + 6)..(MaxChunks * CHUNK_SIZE))

\* Line 110: the count printed before the loop.
AnnouncedChunks(n) == n \div CHUNK_SIZE + 1

\* Line 114
ChunkNum(i) == i \div CHUNK_SIZE + 1

\* Line 115: len(combined_text[i:i + CHUNK_SIZE])
SliceLen(n, i) == Min(n, i + CHUNK_SIZE) - i

\* Lines 82-87: subprocess.run returns, or raises when the ollama binary
\* cannot be started.
RunOllamaOutcomes == { "ok", "FileNotFoundError" }

InitSummarizer ==
    /\ collection = "None" /\ store = <<>>
    /\ budget = 0
    /\ InitSession
    /\ main_pc = "check"
    /\ combined_len \in TextLengths
    /\ announced = 0
    /\ offset = 0
    /\ summaries = <<>>

\* Lines 100-102: nothing was extracted.
EmptyText ==
    /\ main_pc = "check"
    /\ combined_len = 0
    /\ main_pc' = "returned"
    /\ UNCHANGED << combined_len, announced, offset, summaries >>
    /\ UNCHANGED chat_vars

\* Lines 104-111: the text is saved and the chunk count announced.
Announce ==
    /\ main_pc = "check"
    /\ combined_len # 0
    /\ announced' = AnnouncedChunks(combined_len)
    /\ offset' = 0
    /\ summaries' = <<>>
    /\ main_pc' = "loop"
    /\ UNCHANGED combined_len
    /\ UNCHANGED chat_vars

\* Lines 113-124: one iteration of the loop over range(0, len, CHUNK_SIZE).
SummarizeChunk ==
    /\ main_pc = "loop"
    /\ offset < combined_len
    /\ \E out \in RunOllamaOutcomes :
          IF out = "ok"
          THEN /\ summaries' = Append(summaries,
                                      [ chunk_num |-> ChunkNum(offset),
                                        len |-> SliceLen(combined_len, offset) ])
               /\ offset' = offset + CHUNK_SIZE
               /\ main_pc' = "loop"
          ELSE /\ main_pc' = "crashed"
               /\ UNCHANGED << summaries, offset >>
    /\ UNCHANGED << combined_len, announced >>
    /\ UNCHANGED chat_vars

\* Lines 126-138: the range is exhausted; the summaries are combined and the
\* number of chunks processed is reported.
CombineSummaries ==
    /\ main_pc = "loop"
    /\ offset >= combined_len
    /\ \E out \in RunOllamaOutcomes :
          main_pc' = IF out = "ok" THEN "done" ELSE "crashed"
    /\ UNCHANGED << combined_len, announced, offset, summaries >>
    /\ UNCHANGED chat_vars

NextSummarizer ==
    \/ EmptyText
    \/ Announce
    \/ SummarizeChunk
    \/ CombineSummaries

SpecSummarizer == InitSummarizer /\ [][NextSummarizer]_vars

(***************************************************************************)
(* Properties.                                                             *)
(***************************************************************************)
QueryFailed == \E i \in 1..Len(st_errors) : st_errors[i] = "query"

\* The pairs the query returned, in the order it returned them.
Retrieved == Zip(results.documents[1], results.metadatas[1])

\* The context is assembled from a query that returned and did not raise.
Assembled == pc = "post" /\ results # NoResults /\ ~QueryFailed

Occurrences(x, z) == Cardinality({ i \in 1..Len(z) : z[i] = x })

\* C1: whatever the memory query did (returned prior messages, returned
\* nothing, raised, or there is no collection), the message list handed to the
\* inference endpoint is not empty and ends with the current prompt, role
\* user, and the prompt is not empty.
C1_PromptIsLast ==
    /\ pc = "post" =>
          /\ api_messages # <<>>
          /\ api_messages[Len(api_messages)] = Msg("user", prompt)
    /\ payload.sent =>
          /\ prompt # <<>>
          /\ payload.messages # <<>>
          /\ payload.messages[Len(payload.messages)] = Msg("user", prompt)

\* C1 witness: a request was sent whose context holds retrieved messages in
\* front of the prompt.
C1_Witness ==
    /\ payload.sent
    /\ Len(payload.messages) >= 3
    /\ payload.messages[Len(payload.messages)] = Msg("user", prompt)

\* C2 as amended: the context never has more than N_RESULTS + 1 entries; the
\* limit comes from the query's n_results, nothing the query returned is
\* dropped, and the current prompt is always there.
C2_AtMostNResultsPlusOne ==
    /\ payload.sent => Len(payload.messages) <= N_RESULTS + 1
    /\ Assembled =>
          /\ Len(api_messages) = Len(Retrieved) + 1
          /\ Len(api_messages) <= N_RESULTS + 1
          /\ api_messages[Len(api_messages)] = Msg("user", prompt)

\* C2 witness: the store holds more records than the query asks for and the
\* context holds N_RESULTS retrieved messages and the prompt.
C2_Witness ==
    /\ Assembled
    /\ Len(store) > N_RESULTS
    /\ Len(api_messages) = N_RESULTS + 1

\* C2 as stated, on its scenario: with a maximum of 3 and 5 retrieved
\* messages the context is the 2 most recent of them and the prompt.
C2_CappedAtThree ==
    (Assembled /\ Len(Retrieved) = 5) =>
        /\ Len(api_messages) = 3
        /\ api_messages[1] = Msg(zipped_results[4][2].role, zipped_results[4][1])
        /\ api_messages[2] = Msg(zipped_results[5][2].role, zipped_results[5][1])
        /\ api_messages[3] = Msg("user", prompt)

\* C3: in whatever order the store returned its results, the context holds
\* exactly the retrieved messages, in ascending order of timestamp, followed by
\* the current prompt.
C3_AscendingTimestamps ==
    Assembled =>
        /\ Len(zipped_results) = Len(Retrieved)
        /\ \A i \in 1..Len(Retrieved) :
              Occurrences(Retrieved[i], zipped_results)
                  = Occurrences(Retrieved[i], Retrieved)
        /\ \A i, j \in 1..Len(zipped_results) :
              ( /\ i < j
                /\ "timestamp" \in DOMAIN zipped_results[i][2]
                /\ "timestamp" \in DOMAIN zipped_results[j][2] )
              => zipped_results[i][2].timestamp <= zipped_results[j][2].timestamp
        /\ Len(api_messages) = Len(zipped_results) + 1
        /\ \A i \in 1..Len(zipped_results) :
              api_messages[i]
                  = Msg(zipped_results[i][2].role, zipped_results[i][1])
        /\ api_messages[Len(api_messages)] = Msg("user", prompt)

\* C3 witness: the store returned a later message in front of an earlier one,
\* and the context was assembled from that result.
C3_Witness ==
    /\ Assembled
    /\ Len(Retrieved) = N_RESULTS
    /\ \E i, j \in 1..Len(Retrieved) :
          /\ i < j
          /\ Retrieved[i][2].timestamp > Retrieved[j][2].timestamp

\* The tokens of the well-formed lines of ls, in order, up to and including
\* the first line with done = true.
RECURSIVE ForwardedTokens(_)
ForwardedTokens(ls) ==
    IF ls = <<>> THEN <<>>
    ELSE IF ~WellFormed(Head(ls)) THEN ForwardedTokens(Tail(ls))
    ELSE IF Head(ls).done THEN << Head(ls).content >>
    ELSE << Head(ls).content >> \o ForwardedTokens(Tail(ls))

RECURSIVE Joined(_)
Joined(ts) == IF ts = <<>> THEN <<>> ELSE Head(ts) \o Joined(Tail(ts))

Malformed(line) == line.kind \in { "garbage", "nocontent" }

SyntheticMessages == { CONNECT_MSG, ERROR_MSG }

ConnectionFailures == { "ConnectionError", "ChunkedEncodingError" }

DecodeFailures == { "JSONDecodeError", "KeyError" }

\* C4: when the memory query fails (the store raises, or there is no
\* collection) the run does not die: the context is the current prompt alone,
\* the request is sent with it, and the turn goes on to the session entry and
\* the store call like any other turn.
C4_QueryFailureFallsBack ==
    /\ pc # "crashed"
    /\ (collection = "None" /\ pc \in { "post", "stream", "save" }) => QueryFailed
    /\ QueryFailed =>
          /\ pc \in { "post", "stream", "save", "idle" }
          /\ pc = "post" => api_messages = << Msg("user", prompt) >>
          /\ payload.sent => payload.messages = << Msg("user", prompt) >>
          /\ pc = "idle" =>
                /\ calls.post >= 1
                /\ add_result # "none"
                /\ messages[Len(messages)] = Msg("assistant", full_response)

\* C4 witness: the store raised on the query and the turn ran to its end,
\* through the request and the store call.
C4_Witness ==
    /\ collection = "ok"
    /\ pc = "idle"
    /\ st_errors = << "query", "save" >>
    /\ calls.query = 1 /\ calls.post = 1 /\ calls.add = 1

\* C5: a store write that fails changes neither the response text nor the
\* session list, which ends with the user entry and the assistant entry
\* holding that text; the failure is reported and the run ends normally.
C5_StoreFailureKeepsResponse ==
    [][ (pc = "save" /\ pc' # "save" /\ add_result' # "ok") =>
            /\ pc' = "idle"
            /\ full_response' = full_response
            /\ messages[Len(messages)] = Msg("user", prompt)
            /\ messages' = Append(messages, Msg("assistant", full_response))
            /\ st_errors' = Append(st_errors, "save") ]_vars

\* C5 witness: the add call raised after a turn that returned a text.
C5_Witness ==
    /\ pc = "idle"
    /\ add_result = "TypeError"
    /\ full_response # <<>>
    /\ messages = << Msg("user", prompt), Msg("assistant", full_response) >>

\* C6 as amended: when the connection fails, before or after the first
\* token, the output is the tokens forwarded so far followed by exactly one
\* synthetic message, and the turn's text does not reach the store.
C6_OneErrorMessageNothingStored ==
    stream_end \in ConnectionFailures =>
        /\ pc = "save" =>
              /\ chunks # <<>>
              /\ chunks[Len(chunks)] \in SyntheticMessages
              /\ SubSeq(chunks, 1, Len(chunks) - 1) = ForwardedTokens(lines)
              /\ full_response
                    = Joined(ForwardedTokens(lines)) \o chunks[Len(chunks)]
        /\ pc = "idle" =>
              /\ add_result # "ok"
              /\ \A i \in 1..Len(store) : store[i].document # full_response

\* C6 witness: the connection failed after a token was forwarded, and the
\* turn ended with the store call made.
C6_Witness ==
    /\ pc = "idle"
    /\ collection = "ok"
    /\ stream_end \in ConnectionFailures
    /\ Len(full_response) >= 2
    /\ last_add.called

\* C6 as stated: after a connection failure the turn's output is one
\* synthetic message and nothing else.
C6_OutputIsTheErrorMessage ==
    (pc = "save" /\ stream_end \in ConnectionFailures) =>
        /\ Len(chunks) = 1
        /\ full_response \in SyntheticMessages

\* C7: on a cold store, after a turn has written its pair, a turn with the
\* same user text gets both messages back and its context is the user
\* message, the assistant message, and the current prompt.
C7_RoundTrip ==
    ( /\ collection = "ok"
      /\ Len(messages) = 3
      /\ messages[2].role = "assistant"
      /\ messages[1].content = prompt
      /\ \A i \in 1..Len(store) :
            store[i].document \in { messages[1].content, messages[2].content }
      /\ Assembled )
    => api_messages = << Msg("user", prompt),
                         Msg("assistant", messages[2].content),
                         Msg("user", prompt) >>

\* C8: when the stream ends with a done line or by closing, the response is
\* the tokens forwarded, joined in order, up to and including the first done
\* line; the add call then carries documents [prompt, response].
C8_ResponseIsJoinedTokens ==
    stream_end \in { "done", "closed" } =>
        /\ pc = "save" =>
              /\ chunks = ForwardedTokens(lines)
              /\ full_response = Joined(ForwardedTokens(lines))
              /\ stream_end = "done" =>
                    /\ lines # <<>>
                    /\ WellFormed(lines[Len(lines)])
                    /\ lines[Len(lines)].done
        /\ (pc = "idle" /\ collection = "ok") =>
              /\ last_add.called
              /\ last_add.documents = << prompt, full_response >>
              /\ messages[Len(messages)] = Msg("assistant", full_response)

\* C8 witness: prompt "hello", tokens "Hi" and " there" with done, and the
\* add call made with documents ["hello", "Hi there"].
C8_Witness ==
    /\ pc = "idle"
    /\ stream_end = "done"
    /\ prompt = << "hello" >>
    /\ last_add.called
    /\ last_add.documents = << << "hello" >>, << "Hi", " there" >> >>

\* C9: an input that is empty or only whitespace starts no turn: the run
\* ends at once, with no request made and the session list as it was.
C9_BlankPromptRejected ==
    [][ (Waiting /\ Strip(prompt') = <<>>) =>
            /\ pc' = "idle"
            /\ calls' = calls
            /\ messages' = messages ]_vars

\* C10 as amended: a malformed line ends the stream.  The tokens of the
\* lines before it were forwarded and accumulated, one synthetic message
\* follows them, and no further line is read.
C10_MalformedLineEndsStream ==
    \A k \in 1..Len(lines) :
        Malformed(lines[k]) =>
            /\ k = Len(lines)
            /\ pc = "save"
            /\ stream_end \in DecodeFailures
            /\ chunks = ForwardedTokens(SubSeq(lines, 1, k - 1)) \o << ERROR_MSG >>
            /\ gen_response = Joined(ForwardedTokens(SubSeq(lines, 1, k - 1)))
            /\ full_response = gen_response \o ERROR_MSG

\* C10 witness: a token was forwarded, then a malformed line arrived.
C10_Witness ==
    /\ pc = "save"
    /\ Len(lines) = 2
    /\ WellFormed(lines[1]) /\ lines[1].content # <<>> /\ ~lines[1].done
    /\ Malformed(lines[2])

\* C10 as stated: a malformed line is skipped; what was forwarded and
\* accumulated is the tokens of the well-formed lines, and no synthetic
\* message ends the stream because of it.
C10_MalformedLineSkipped ==
    pc \in { "stream", "save" } =>
        /\ stream_end \notin DecodeFailures
        /\ stream_end \in { "none", "done", "closed" } =>
              /\ chunks = ForwardedTokens(lines)
              /\ gen_response = Joined(ForwardedTokens(lines))

\* C11: over any sequence of turns, of this session and of other sessions
\* on the same collection, with clock readings that may coincide, no id is
\* handed to the store twice.
C11_UniqueIds ==
    \A i, j \in 1..Len(handed_ids) :
        i # j => handed_ids[i] # handed_ids[j]

\* C12: in every add call the timestamp of the assistant record is strictly
\* greater than the timestamp of the user record of the same call, also when
\* the two readings of the clock coincide; the same holds of the timestamps
\* the two ids are built from.
C12_AssistantAfterUser ==
    /\ last_add.called =>
          /\ last_add.metadatos[1].role = "user"
          /\ last_add.metadatos[2].role = "assistant"
          /\ last_add.metadatos[2].timestamp > last_add.metadatos[1].timestamp
          /\ last_add.ids = << MsgId(last_add.metadatos[1].timestamp, "user"),
                               MsgId(last_add.metadatos[2].timestamp, "asst") >>
    /\ \A k \in 1..(Len(handed_ids) \div 2) :
          handed_ids[2 * k][2] > handed_ids[2 * k - 1][2]

\* C12 witness: an add call of a turn whose two clock readings coincided, and
\* an earlier call on the same collection.
C12_Witness ==
    /\ last_add.called
    /\ last_add.metadatos[2].timestamp
          = last_add.metadatos[1].timestamp + ONE_SECOND
    /\ Len(handed_ids) >= 4

InTurn == pc \in { "query", "assemble", "post", "stream", "save" }

WithRole(role) == { i \in 1..Len(messages) : messages[i].role = role }

C14_BoundedWait == (pc = "stream") ~> (pc = "idle")

Accepted == Cardinality(WithRole("user"))

\* Requests made so far when the running turn is at position pc and the
\* turns before it made one of each: the query first, then the request,
\* then the add call.
Expected(step) ==
    IF step = "query" THEN IF pc = "query" THEN Accepted - 1 ELSE Accepted
    ELSE IF step = "post"
    THEN IF pc \in { "query", "assemble", "post" } THEN Accepted - 1 ELSE Accepted
    ELSE IF InTurn THEN Accepted - 1 ELSE Accepted

\* C15: every accepted prompt is followed by the memory query, then the
\* inference request, then the store write, each once; the store write comes
\* after the stream has ended, carries (prompt, final text), and is made
\* also when the stream ended in a failure.
C15_StepsInOrderOnce ==
    /\ pc # "crashed"
    /\ calls.post = Expected("post")
    /\ collection = "ok" =>
          /\ calls.query = Expected("query")
          /\ calls.add = Expected("add")
    /\ collection = "None" =>
          /\ calls.query = 0 /\ calls.add = 0
          /\ pc \in { "post", "stream", "save" } => st_errors = << "query" >>
          /\ (pc = "idle" /\ stream_end # "none") =>
                st_errors = << "query", "save" >>
    /\ pc \in { "query", "assemble", "post", "stream" } =>
          stream_end = "none" /\ add_result = "none"
    /\ pc = "save" => stream_end # "none" /\ add_result = "none"
    /\ pc = "idle" => (stream_end # "none" <=> add_result # "none")
    /\ last_add.called =>
          /\ pc = "idle" /\ stream_end # "none"
          /\ last_add.documents = << prompt, full_response >>

\* C15 witness: the stream of a turn failed and the add call was made after
\* it, with the prompt and the text shown, one request of each kind.
C15_Witness ==
    /\ pc = "idle"
    /\ collection = "ok"
    /\ stream_end \in ConnectionFailures \cup DecodeFailures \cup { "HTTPError" }
    /\ last_add.called
    /\ last_add.documents = << prompt, full_response >>
    /\ calls = [ query |-> 1, post |-> 1, add |-> 1 ]

\* The query results that hold the records of res in another order.
Reorderings(res) ==
    LET k == Len(res.documents[1])
        perms == { f \in [1..k -> 1..k] : \A i, j \in 1..k : i # j => f[i] # f[j] }
    IN  { [ documents |-> << [ i \in 1..k |-> res.documents[1][f[i]] ] >>,
            metadatas |-> << [ i \in 1..k |-> res.metadatas[1][f[i]] ] >> ] :
          f \in perms }

\* Where the pair x stands in the sequence z.
PositionIn(z, x) == CHOOSE i \in 1..Len(z) : z[i] = x

TiedPairs ==
    { ij \in (1..Len(Retrieved)) \X (1..Len(Retrieved)) :
        /\ ij[1] < ij[2]
        /\ SortKey(Retrieved[ij[1]]) = SortKey(Retrieved[ij[2]]) }

\* C16 as amended: records with equal timestamps stay in the order in which
\* the query returned them, and when no two retrieved records have the same
\* timestamp every ordering of the same records gives the same context.
C16_TiesKeepQueryOrder ==
    Assembled =>
        /\ \A ij \in TiedPairs :
              PositionIn(zipped_results, Retrieved[ij[1]])
                 < PositionIn(zipped_results, Retrieved[ij[2]])
        /\ TiedPairs = {} =>
              \A r \in Reorderings(results) :
                  TryAssemble(r, prompt).api = api_messages

\* C16 witness: a context assembled from a result in which two records have
\* the same timestamp and the later written one came back first.
C16_Witness ==
    /\ Assembled
    /\ \E ij \in TiedPairs :
          /\ Retrieved[ij[1]][2].role = "assistant"
          /\ Retrieved[ij[2]][2].role = "user"

\* C16 as stated: two query results that hold the same records in different
\* orders give the same context.
C16_SameRecordsSameContext ==
    Assembled =>
        \A r \in Reorderings(results) :
            TryAssemble(r, prompt).api = api_messages

\* C17: for every combined text that is not empty, the number of chunks
\* announced before the loop is the number of chunks sent to the model and
\* reported at the end.
C17_AnnouncedEqualsProcessed ==
    main_pc = "done" => announced = Len(summaries)

====
